---- MODULE Spec2Model ----
(***************************************************************************)
(* Model of check_quality.py: the path extractor extract_paths_from_raw    *)
(* and the quality checker check_service.                                  *)
(*                                                                         *)
(* Text is modelled as a sequence of tokens: the key "x_key" is            *)
(* <<"x", "_key">>, the object key "a.parquet" is <<"a", ".parquet">>, the *)
(* empty string is <<>>.  A suffix test looks at the last token, a         *)
(* substring test at every token, str.replace rewrites every occurrence.   *)
(***************************************************************************)
EXTENDS Integers, Sequences, FiniteSets, TLC

VARIABLES
    raw,                  \* extract_paths_from_raw: the argument raw_content
    result,               \* extract_paths_from_raw: how the call ended
    xpc,                  \* extract_paths_from_raw: "idle", "call", "returned"
    storage,              \* the object store: reference -> object state
    service_name,         \* check_service: the requested entry name
    pc,                   \* check_service: position in the function
    run,                  \* number of the current invocation of check_service
    service_item,         \* index of the entry found, 0 for None
    paths,                \* list of (bucket, key) references
    idx,                  \* position of the for loop in paths
    file_access_failed,   \* list of (s3_path, reason)
    room_category_failed, \* list of s3_path
    empty_file_failed,    \* list of s3_path
    files_checked,        \* count of successfully read files
    checked,              \* the s3_path of every file counted in files_checked
    output,               \* lines printed by the current invocation
    prev_output,          \* lines printed by the previous invocation
    trace                 \* calls made by the current invocation, in order

vars == <<raw, result, xpc, storage, service_name, pc, run, service_item, paths,
          idx, file_access_failed, room_category_failed, empty_file_failed,
          files_checked, checked, output, prev_output, trace>>

extractVars == <<raw, result, xpc>>

checkVars == <<storage, service_name, pc, run, service_item, paths, idx,
               file_access_failed, room_category_failed, empty_file_failed,
               files_checked, checked, output, prev_output, trace>>

(***************************************************************************)
(* Bounds of the model.                                                    *)
(***************************************************************************)
MaxMembers == 2

MaxParams == 3

MaxRuns == 2

(***************************************************************************)
(* Strings and dictionaries.                                               *)
(***************************************************************************)
EmptyStr == <<>>

endswith(s, suffixes) == Len(s) > 0 /\ s[Len(s)] \in suffixes

contains(s, tok) == \E i \in 1..Len(s) : s[i] = tok

replace(s, old, new) == [i \in 1..Len(s) |-> IF s[i] = old THEN new ELSE s[i]]

SeqsUpTo(S, n) == UNION {[1..k -> S] : k \in 0..n}

HasKey(d, k) == \E i \in 1..Len(d) : d[i].name = k

Lookup(d, k) == d[CHOOSE i \in 1..Len(d) : d[i].name = k].value

Get(d, k, default) == IF HasKey(d, k) THEN Lookup(d, k) ELSE default

SetItem(d, k, v) ==
    IF HasKey(d, k)
    THEN [i \in 1..Len(d) |-> IF d[i].name = k THEN [name |-> k, value |-> v] ELSE d[i]]
    ELSE Append(d, [name |-> k, value |-> v])

(***************************************************************************)
(* json.loads on the body text: an object becomes a dict (a repeated       *)
(* member keeps its first position and its last value), any other JSON     *)
(* value is returned as it is, and any other text raises JSONDecodeError.  *)
(***************************************************************************)
RECURSIVE DictOf(_, _)
DictOf(members, n) ==
    IF n = 0 THEN <<>>
    ELSE SetItem(DictOf(members, n - 1), members[n].name, members[n].value)

json_loads(text) ==
    CASE text.form = "json_object" ->
            [ok |-> TRUE, is_dict |-> TRUE, items |-> DictOf(text.pairs, Len(text.pairs))]
      [] text.form = "json_other" ->
            [ok |-> TRUE, is_dict |-> FALSE, items |-> <<>>]
      [] OTHER ->
            [ok |-> FALSE, is_dict |-> FALSE, items |-> <<>>]

(***************************************************************************)
(* urlparse raises ValueError on a malformed netloc; parse_qs drops blank  *)
(* values and groups the values of a repeated name at its first position.  *)
(***************************************************************************)
urlparse_ok(text) == text.form # "url_invalid"

RECURSIVE parse_qs_upto(_, _)
parse_qs_upto(query, n) ==
    IF n = 0 THEN <<>>
    ELSE LET d == parse_qs_upto(query, n - 1)
             p == query[n]
         IN  IF p.value = EmptyStr THEN d
             ELSE IF HasKey(d, p.name)
                  THEN SetItem(d, p.name, Append(Lookup(d, p.name), p.value))
                  ELSE SetItem(d, p.name, <<p.value>>)

parse_qs(query) == parse_qs_upto(query, Len(query))

(***************************************************************************)
(* extract_paths_from_raw, JSON branch.                                    *)
(***************************************************************************)
KeySuffixes == {"_key", "_file", "_path"}

Truthy(v) == v # EmptyStr

JsonBucket(body_json, key) ==
    Get(body_json, replace(key, "_key", "_bucket"),
        Get(body_json, replace(key, "_file", "_bucket"),
            Get(body_json, replace(key, "_path", "_bucket"), EmptyStr)))

JsonEmits(body_json, i) ==
    LET key == body_json[i].name
        val == body_json[i].value
    IN  IF endswith(key, KeySuffixes) /\ Truthy(val) /\ Truthy(JsonBucket(body_json, key))
        THEN <<JsonBucket(body_json, key), val>>
        ELSE <<>>

RECURSIVE JsonScan(_, _)
JsonScan(body_json, n) ==
    IF n = 0 THEN <<>>
    ELSE LET e == JsonEmits(body_json, n)
         IN  IF e = <<>> THEN JsonScan(body_json, n - 1)
             ELSE Append(JsonScan(body_json, n - 1), e)

(***************************************************************************)
(* extract_paths_from_raw, URL branch.  The loop variable bucket is <<>>   *)
(* for None and <<b>> once a bucket parameter has been seen.               *)
(***************************************************************************)
\* Variant: the first bucket parameter is kept for the rest of the scan.
UrlBucketAfter_FirstWins(bucket, key, values) ==
    IF contains(key, "_bucket") /\ bucket = <<>> THEN <<values[1]>> ELSE bucket

UrlBucketAfter(bucket, key, values) ==
    IF contains(key, "_bucket") THEN <<values[1]>> ELSE bucket

UrlEmits(bucket, key, values) ==
    endswith(key, {"_file", "_path"}) /\ values # <<>>
        /\ bucket # <<>> /\ Truthy(bucket[1])

RECURSIVE UrlScan(_, _)
UrlScan(query_params, n) ==
    IF n = 0 THEN [bucket |-> <<>>, paths |-> <<>>]
    ELSE LET before == UrlScan(query_params, n - 1)
             key    == query_params[n].name
             values == query_params[n].value
             bucket == UrlBucketAfter(before.bucket, key, values)
         IN  [bucket |-> bucket,
              paths  |-> IF UrlEmits(bucket, key, values)
                         THEN Append(before.paths, <<bucket[1], values[1]>>)
                         ELSE before.paths]

(***************************************************************************)
(* extract_paths_from_raw: the whole call.  raised names the exception     *)
(* that leaves the function, "" when it returns.                           *)
(***************************************************************************)
extract_paths_from_raw(raw_content) ==
    LET body_json == json_loads(raw_content)
    IN  IF body_json.ok
        THEN IF body_json.is_dict
             THEN [raised |-> "",
                   paths  |-> JsonScan(body_json.items, Len(body_json.items))]
             ELSE [raised |-> "AttributeError", paths |-> <<>>]
        ELSE IF urlparse_ok(raw_content)
             THEN LET query_params == parse_qs(raw_content.pairs)
                  IN  [raised |-> "",
                       paths  |-> UrlScan(query_params, Len(query_params)).paths]
             ELSE [raised |-> "ValueError", paths |-> <<>>]

(***************************************************************************)
(* Inputs of the extractor.                                                *)
(***************************************************************************)
JsonKeys == {<<"x", "_key">>, <<"x", "_file">>, <<"x", "_path">>,
             <<"x", "_bucket">>, <<"y", "_bucket">>, <<"x">>}

UrlNames == {<<"x", "_bucket">>, <<"y", "_bucket">>, <<"x", "_file">>,
             <<"x", "_path">>, <<"_bucket", "_file">>, <<"x">>}

Values == {EmptyStr, <<"b1">>, <<"a", ".json">>}

Pairs(names) == [name : names, value : Values]

RawInputs ==
    [form : {"json_object"}, pairs : SeqsUpTo(Pairs(JsonKeys), MaxMembers)]
    \cup [form : {"url"}, pairs : SeqsUpTo(Pairs(UrlNames), MaxParams)]
    \cup [form : {"json_other", "url_invalid"}, pairs : {<<>>}]

NoResult == [raised |-> "", paths |-> <<>>]

(***************************************************************************)
(* The extractor alone: one call on an arbitrary raw text.                 *)
(***************************************************************************)
CheckIdle ==
    /\ storage = <<>> /\ service_name = "" /\ pc = "idle" /\ run = 0
    /\ service_item = 0 /\ paths = <<>> /\ idx = 0
    /\ file_access_failed = <<>> /\ room_category_failed = <<>>
    /\ empty_file_failed = <<>> /\ files_checked = 0 /\ checked = <<>>
    /\ output = <<>> /\ prev_output = <<>> /\ trace = <<>>

InitExtract ==
    /\ raw \in RawInputs
    /\ result = NoResult
    /\ xpc = "call"
    /\ CheckIdle

ExtractCall ==
    /\ xpc = "call"
    /\ result' = extract_paths_from_raw(raw)
    /\ xpc' = "returned"
    /\ UNCHANGED <<raw, checkVars>>

NextExtract == ExtractCall

SpecExtract == InitExtract /\ [][NextExtract]_vars

(***************************************************************************)
(* The collection file: data["item"], a sequence of entries.  has_body and *)
(* has_url say whether request.body.raw and request.url.raw are present.   *)
(***************************************************************************)
Member(n, v) == [name |-> n, value |-> v]

JsonText(members) == [form |-> "json_object", pairs |-> members]

UrlText(params) == [form |-> "url", pairs |-> params]

NoText == [form |-> "url", pairs |-> <<>>]

Entry(n, hb, b, hu, u) ==
    [name |-> n, has_body |-> hb, body |-> b, has_url |-> hu, url |-> u]

Bucket1 == <<"b1">>

ParquetKey == <<"a", ".parquet">>

JsonKey == <<"a", ".json">>

CsvKey == <<"a", ".csv">>

Collection ==
    << Entry("both", TRUE,
             JsonText(<<Member(<<"x", "_key">>, ParquetKey),
                        Member(<<"x", "_bucket">>, Bucket1)>>),
             TRUE,
             UrlText(<<Member(<<"x", "_bucket">>, Bucket1),
                       Member(<<"x", "_file">>, JsonKey)>>)),
       Entry("url_only", FALSE, NoText, TRUE,
             UrlText(<<Member(<<"y", "_bucket">>, Bucket1),
                       Member(<<"x", "_file">>, CsvKey),
                       Member(<<"x", "_path">>, JsonKey)>>)),
       Entry("no_refs", TRUE, JsonText(<<Member(<<"x">>, Bucket1)>>), FALSE, NoText),
       Entry("bare", FALSE, NoText, FALSE, NoText),
       Entry("list_body", TRUE, [form |-> "json_other", pairs |-> <<>>], TRUE,
             UrlText(<<Member(<<"x", "_bucket">>, Bucket1),
                       Member(<<"x", "_file">>, JsonKey)>>)),
       Entry("twice", TRUE,
             JsonText(<<Member(<<"x", "_key">>, JsonKey),
                        Member(<<"x", "_bucket">>, Bucket1)>>),
             TRUE,
             UrlText(<<Member(<<"x", "_bucket">>, Bucket1),
                       Member(<<"x", "_file">>, JsonKey)>>)),
       Entry("both", FALSE, NoText, FALSE, NoText) >>

ServiceNames == {Collection[i].name : i \in 1..Len(Collection)} \cup {"absent"}

Refs == {<<Bucket1, ParquetKey>>, <<Bucket1, JsonKey>>, <<Bucket1, CsvKey>>}

(***************************************************************************)
(* The object store.  head and get say whether head_object and get_object  *)
(* succeed on the object; content is what its bytes decode to.             *)
(***************************************************************************)
Content(f, e, c, d) ==
    [format |-> f, empty |-> e, has_room_category |-> c, is_dict |-> d]

ObjectContents ==
    {Content("parquet", e, c, FALSE) : e \in BOOLEAN, c \in BOOLEAN}
    \cup {Content("json", FALSE, c, TRUE) : c \in BOOLEAN}
    \cup {Content("json", FALSE, FALSE, FALSE), Content("garbage", FALSE, FALSE, FALSE)}

ObjectStates ==
    {[head |-> FALSE, get |-> FALSE, content |-> Content("garbage", FALSE, FALSE, FALSE)],
     [head |-> TRUE, get |-> FALSE, content |-> Content("garbage", FALSE, FALSE, FALSE)]}
    \cup [head : {TRUE}, get : {TRUE}, content : ObjectContents]

(***************************************************************************)
(* Printed lines and logged calls.                                         *)
(***************************************************************************)
Line(text) == [text |-> text, path |-> <<>>, reason |-> ""]

AccessDetail(p, reason) == [text |-> "  {p} -> {reason}", path |-> p, reason |-> reason]

PathDetail(p) == [text |-> "  {p}", path |-> p, reason |-> ""]

NotFoundLine == Line("Service '{service_name}' not found in JSON")

S3Path(bucket, key) == <<"s3://">> \o bucket \o <<"/">> \o key

Call(op, bucket, key) == [op |-> op, bucket |-> bucket, key |-> key]

ProbeReason == "unable to access the file"

StrOfError(e) == "str(" \o e \o ")"

(***************************************************************************)
(* check_service: the lookup of the entry.                                 *)
(***************************************************************************)
\* Variant: next(...) falls back to the first entry instead of None.
FindService_FirstAsDefault(items, name) ==
    IF \E i \in 1..Len(items) : items[i].name = name
    THEN CHOOSE i \in 1..Len(items) :
            /\ items[i].name = name
            /\ \A j \in 1..(i - 1) : items[j].name # name
    ELSE 1

FindService(items, name) ==
    IF \E i \in 1..Len(items) : items[i].name = name
    THEN CHOOSE i \in 1..Len(items) :
            /\ items[i].name = name
            /\ \A j \in 1..(i - 1) : items[j].name # name
    ELSE 0

Lookup_service ==
    /\ pc = "start"
    /\ service_item' = FindService(Collection, service_name)
    /\ IF service_item' = 0
       THEN /\ output' = Append(output, NotFoundLine)
            /\ pc' = "done"
       ELSE /\ output' = output
            /\ pc' = "extract"
    /\ UNCHANGED <<extractVars, storage, service_name, run, paths, idx,
                   file_access_failed, room_category_failed, empty_file_failed,
                   files_checked, checked, prev_output, trace>>

(***************************************************************************)
(* check_service: building paths from body.raw and url.raw, then the fresh *)
(* accumulators.  An exception of the extractor leaves check_service.      *)
(***************************************************************************)
BodyResult(item) ==
    IF item.has_body THEN extract_paths_from_raw(item.body) ELSE NoResult

UrlResult(item) ==
    IF item.has_url THEN extract_paths_from_raw(item.url) ELSE NoResult

ExtractCalls(item) ==
    (IF item.has_body THEN <<Call("extract", <<>>, <<"body">>)>> ELSE <<>>)
    \o (IF item.has_url /\ BodyResult(item).raised = ""
        THEN <<Call("extract", <<>>, <<"url">>)>> ELSE <<>>)

\* Variant: the accumulators live outside the function and are never emptied.
FreshAccumulators_Kept ==
    [file_access_failed |-> file_access_failed,
     room_category_failed |-> room_category_failed,
     empty_file_failed |-> empty_file_failed,
     files_checked |-> files_checked, checked |-> checked]

FreshAccumulators ==
    [file_access_failed |-> <<>>, room_category_failed |-> <<>>,
     empty_file_failed |-> <<>>, files_checked |-> 0, checked |-> <<>>]

Extract_paths ==
    /\ pc = "extract"
    /\ LET item == Collection[service_item]
           body == BodyResult(item)
           url  == UrlResult(item)
           acc  == FreshAccumulators
       IN  /\ trace' = trace \o ExtractCalls(item)
           /\ IF body.raised # "" \/ url.raised # ""
              THEN /\ pc' = "raised"
                   /\ paths' = (IF body.raised = "" THEN body.paths ELSE <<>>)
                   /\ UNCHANGED <<idx, file_access_failed, room_category_failed,
                                  empty_file_failed, files_checked, checked>>
              ELSE /\ pc' = "loop"
                   /\ paths' = body.paths \o url.paths
                   /\ idx' = 1
                   /\ file_access_failed' = acc.file_access_failed
                   /\ room_category_failed' = acc.room_category_failed
                   /\ empty_file_failed' = acc.empty_file_failed
                   /\ files_checked' = acc.files_checked
                   /\ checked' = acc.checked
    /\ UNCHANGED <<extractVars, storage, service_name, run, service_item,
                   output, prev_output>>

(***************************************************************************)
(* check_service: the loop over paths.  Probe is the head_object try       *)
(* block, Read the content try block of the same iteration.                *)
(***************************************************************************)
\* Variant: the except block of the probe lacks its continue.
Probe_NoContinue ==
    /\ pc = "loop"
    /\ idx <= Len(paths)
    /\ LET bucket  == paths[idx][1]
           key     == paths[idx][2]
           s3_path == S3Path(bucket, key)
       IN  /\ trace' = Append(trace, Call("head_object", bucket, key))
           /\ file_access_failed' =
                  IF storage[paths[idx]].head THEN file_access_failed
                  ELSE Append(file_access_failed, <<s3_path, ProbeReason>>)
           /\ pc' = "read"
    /\ UNCHANGED <<extractVars, storage, service_name, run, service_item, paths,
                   idx, room_category_failed, empty_file_failed, files_checked,
                   checked, output, prev_output>>

\* Variant: the probe has no except block, its exception leaves the function.
Probe_Uncaught ==
    /\ pc = "loop"
    /\ idx <= Len(paths)
    /\ trace' = Append(trace, Call("head_object", paths[idx][1], paths[idx][2]))
    /\ pc' = IF storage[paths[idx]].head THEN "read" ELSE "raised"
    /\ UNCHANGED <<extractVars, storage, service_name, run, service_item, paths,
                   idx, file_access_failed, room_category_failed,
                   empty_file_failed, files_checked, checked, output, prev_output>>

Probe ==
    /\ pc = "loop"
    /\ idx <= Len(paths)
    /\ LET bucket  == paths[idx][1]
           key     == paths[idx][2]
           s3_path == S3Path(bucket, key)
       IN  /\ trace' = Append(trace, Call("head_object", bucket, key))
           /\ IF storage[paths[idx]].head
              THEN /\ pc' = "read"
                   /\ UNCHANGED <<idx, file_access_failed>>
              ELSE /\ file_access_failed' =
                          Append(file_access_failed, <<s3_path, ProbeReason>>)
                   /\ idx' = idx + 1
                   /\ pc' = "loop"
    /\ UNCHANGED <<extractVars, storage, service_name, run, service_item, paths,
                   room_category_failed, empty_file_failed, files_checked,
                   checked, output, prev_output>>

\* Variant: files_checked is incremented after the fetch, before the decode.
ReadOutcome_CountBeforeDecode(key, obj) ==
    LET c == obj.content
        none == [get |-> FALSE, error |-> "", counted |-> FALSE,
                 empty |-> FALSE, no_room |-> FALSE]
    IN  IF endswith(key, {".parquet"})
        THEN IF ~obj.get
             THEN [none EXCEPT !.get = TRUE, !.error = StrOfError("get_object")]
             ELSE IF c.format # "parquet"
             THEN [none EXCEPT !.get = TRUE, !.counted = TRUE,
                               !.error = StrOfError("read_parquet")]
             ELSE [get |-> TRUE, error |-> "", counted |-> TRUE,
                   empty |-> c.empty, no_room |-> ~c.has_room_category]
        ELSE IF endswith(key, {".json"})
        THEN IF ~obj.get
             THEN [none EXCEPT !.get = TRUE, !.error = StrOfError("get_object")]
             ELSE IF c.format # "json"
             THEN [none EXCEPT !.get = TRUE, !.counted = TRUE,
                               !.error = StrOfError("json.loads")]
             ELSE [get |-> TRUE, error |-> "", counted |-> TRUE,
                   empty |-> FALSE, no_room |-> c.is_dict /\ ~c.has_room_category]
        ELSE none

ReadOutcome(key, obj) ==
    LET c == obj.content
        none == [get |-> FALSE, error |-> "", counted |-> FALSE,
                 empty |-> FALSE, no_room |-> FALSE]
    IN  IF endswith(key, {".parquet"})
        THEN IF ~obj.get
             THEN [none EXCEPT !.get = TRUE, !.error = StrOfError("get_object")]
             ELSE IF c.format # "parquet"
             THEN [none EXCEPT !.get = TRUE, !.error = StrOfError("read_parquet")]
             ELSE [get |-> TRUE, error |-> "", counted |-> TRUE,
                   empty |-> c.empty, no_room |-> ~c.has_room_category]
        ELSE IF endswith(key, {".json"})
        THEN IF ~obj.get
             THEN [none EXCEPT !.get = TRUE, !.error = StrOfError("get_object")]
             ELSE IF c.format # "json"
             THEN [none EXCEPT !.get = TRUE, !.error = StrOfError("json.loads")]
             ELSE [get |-> TRUE, error |-> "", counted |-> TRUE,
                   empty |-> FALSE, no_room |-> c.is_dict /\ ~c.has_room_category]
        ELSE none

Read ==
    /\ pc = "read"
    /\ LET bucket  == paths[idx][1]
           key     == paths[idx][2]
           s3_path == S3Path(bucket, key)
           r       == ReadOutcome(key, storage[paths[idx]])
       IN  /\ trace' = IF r.get THEN Append(trace, Call("get_object", bucket, key))
                       ELSE trace
           /\ files_checked' = IF r.counted THEN files_checked + 1 ELSE files_checked
           /\ checked' = IF r.counted THEN Append(checked, s3_path) ELSE checked
           /\ empty_file_failed' =
                  IF r.empty THEN Append(empty_file_failed, s3_path)
                  ELSE empty_file_failed
           /\ room_category_failed' =
                  IF r.no_room THEN Append(room_category_failed, s3_path)
                  ELSE room_category_failed
           /\ file_access_failed' =
                  IF r.error # "" THEN Append(file_access_failed, <<s3_path, r.error>>)
                  ELSE file_access_failed
    /\ idx' = idx + 1
    /\ pc' = "loop"
    /\ UNCHANGED <<extractVars, storage, service_name, run, service_item, paths,
                   output, prev_output>>

(***************************************************************************)
(* check_service: the printed report.                                      *)
(***************************************************************************)
AccessLines(failed) ==
    IF failed # <<>>
    THEN <<Line("file_accessible : Failed")>>
         \o [i \in 1..Len(failed) |-> AccessDetail(failed[i][1], failed[i][2])]
    ELSE <<Line("file_accessible : Passed")>>

BucketLines(title, failed) ==
    IF failed # <<>>
    THEN <<Line(title \o " : Failed")>> \o [i \in 1..Len(failed) |-> PathDetail(failed[i])]
    ELSE <<Line(title \o " : Passed")>>

\* Variant: the files_checked == 0 branch is missing.
ReportLines_NoForcedFailure(access, room, empty, n_checked) ==
    AccessLines(access)
    \o BucketLines("room_category_check", room)
    \o BucketLines("empty_file", empty)

\* Variant: the files_checked == 0 branch lacks its return.
ReportLines_NoReturn(access, room, empty, n_checked) ==
    AccessLines(access)
    \o (IF n_checked = 0
        THEN <<Line("room_category_check : Failed (no accessible files)"),
               Line("empty_file : Failed (no accessible files)")>>
        ELSE <<>>)
    \o BucketLines("room_category_check", room)
    \o BucketLines("empty_file", empty)

ReportLines(access, room, empty, n_checked) ==
    AccessLines(access)
    \o (IF n_checked = 0
        THEN <<Line("room_category_check : Failed (no accessible files)"),
               Line("empty_file : Failed (no accessible files)")>>
        ELSE BucketLines("room_category_check", room)
             \o BucketLines("empty_file", empty))

Report ==
    /\ pc = "loop"
    /\ idx > Len(paths)
    /\ output' = output \o ReportLines(file_access_failed, room_category_failed,
                                        empty_file_failed, files_checked)
    /\ pc' = "done"
    /\ UNCHANGED <<extractVars, storage, service_name, run, service_item, paths,
                   idx, file_access_failed, room_category_failed,
                   empty_file_failed, files_checked, checked, prev_output, trace>>

(***************************************************************************)
(* The script is run again on the same collection, entry and store.  The   *)
(* console and the call log start empty; the function's frame is new, its  *)
(* locals are bound again by the assignments of the new run.               *)
(***************************************************************************)
Reinvoke ==
    /\ pc \in {"done", "raised"}
    /\ run < MaxRuns
    /\ run' = run + 1
    /\ pc' = "start"
    /\ prev_output' = output
    /\ output' = <<>>
    /\ trace' = <<>>
    /\ UNCHANGED <<extractVars, storage, service_name, service_item, paths, idx,
                   file_access_failed, room_category_failed, empty_file_failed,
                   files_checked, checked>>

Init ==
    /\ raw = NoText /\ result = NoResult /\ xpc = "idle"
    /\ storage \in [Refs -> ObjectStates]
    /\ service_name \in ServiceNames
    /\ pc = "start"
    /\ run = 1
    /\ service_item = 0
    /\ paths = <<>>
    /\ idx = 0
    /\ file_access_failed = <<>>
    /\ room_category_failed = <<>>
    /\ empty_file_failed = <<>>
    /\ files_checked = 0
    /\ checked = <<>>
    /\ output = <<>>
    /\ prev_output = <<>>
    /\ trace = <<>>

Next ==
    \/ Lookup_service
    \/ Extract_paths
    \/ Probe
    \/ Read
    \/ Report
    \/ Reinvoke

Spec == Init /\ [][Next]_vars

(***************************************************************************)
(* Properties of extract_paths_from_raw, under SpecExtract.                *)
(***************************************************************************)
Range(s) == {s[i] : i \in 1..Len(s)}

Returned == xpc = "returned"

Companion(key) == [key EXCEPT ![Len(key)] = "_bucket"]

ParsedBody == json_loads(raw).items

ParsedQuery == parse_qs(raw.pairs)

\* C1: extract_paths_from_raw never raises, whatever the raw text is: it
\* returns a list of pairs, the empty list when the text is JSON but not an
\* object.
C1_NeverRaises == Returned => result.raised = ""

\* C2: in the JSON branch every emitted reference comes from a key k ending in
\* _key, _file or _path with a non-empty value v whose companion key (the
\* suffix replaced by _bucket) is present with a non-empty value b, and the
\* reference is (b, v); an object with no non-empty *_bucket key yields the
\* empty list.
C2_CompanionBucket ==
    (Returned /\ raw.form = "json_object") =>
        /\ \A n \in 1..Len(result.paths) :
              \E i \in 1..Len(ParsedBody) :
                 LET k == ParsedBody[i].name
                     v == ParsedBody[i].value
                 IN  /\ endswith(k, KeySuffixes)
                     /\ v # EmptyStr
                     /\ HasKey(ParsedBody, Companion(k))
                     /\ Lookup(ParsedBody, Companion(k)) # EmptyStr
                     /\ result.paths[n] = <<Lookup(ParsedBody, Companion(k)), v>>
        /\ (\A i \in 1..Len(ParsedBody) :
               endswith(ParsedBody[i].name, {"_bucket"}) => ParsedBody[i].value = EmptyStr)
           => result.paths = <<>>

BucketsUpTo(q, j) ==
    {i \in 1..j : contains(q[i].name, "_bucket") /\ q[i].value[1] # EmptyStr}

Emitting(q) ==
    {j \in 1..Len(q) : endswith(q[j].name, {"_file", "_path"}) /\ BucketsUpTo(q, j) # {}}

MaxOf(S) == CHOOSE m \in S : \A n \in S : n <= m

RankIn(S, j) == Cardinality({k \in S : k <= j})

\* C3: in the URL branch the parameters are scanned once, left to right; a
\* parameter whose name ends in file or path emits a reference exactly when a
\* parameter whose name contains bucket, with a non-empty first value, occurs
\* at or before it, and the pair is (first value of the most recent such
\* bucket parameter, first value of the file/path parameter).
C3_UrlScan ==
    (Returned /\ raw.form = "url") =>
        /\ result.raised = ""
        /\ Len(result.paths) = Cardinality(Emitting(ParsedQuery))
        /\ \A j \in Emitting(ParsedQuery) :
              result.paths[RankIn(Emitting(ParsedQuery), j)] =
                  <<ParsedQuery[MaxOf(BucketsUpTo(ParsedQuery, j))].value[1],
                    ParsedQuery[j].value[1]>>

C3_Witness ==
    /\ Returned /\ raw.form = "url"
    /\ \E j \in Emitting(ParsedQuery) :
          /\ Cardinality(BucketsUpTo(ParsedQuery, j)) = 2
          /\ \E i \in BucketsUpTo(ParsedQuery, j) :
                ParsedQuery[i].value[1] # ParsedQuery[MaxOf(BucketsUpTo(ParsedQuery, j))].value[1]
    /\ \E j \in 1..Len(ParsedQuery) :
          endswith(ParsedQuery[j].name, {"_file", "_path"}) /\ j \notin Emitting(ParsedQuery)

(***************************************************************************)
(* Properties of check_service, under Spec.                                *)
(***************************************************************************)
NoMatch == \A i \in 1..Len(Collection) : Collection[i].name # service_name

Reported == pc = "done" /\ ~NoMatch

IsHead(c) == c.op = "head_object"

HeadRefs == [i \in 1..Len(SelectSeq(trace, IsHead)) |->
                <<SelectSeq(trace, IsHead)[i].bucket, SelectSeq(trace, IsHead)[i].key>>]

RefPath(r) == S3Path(r[1], r[2])

FailedPaths == {f[1] : f \in Range(file_access_failed)}

ForcedLines ==
    <<Line("room_category_check : Failed (no accessible files)"),
      Line("empty_file : Failed (no accessible files)")>>

HeaderLines == {Line("file_accessible : Failed"), Line("file_accessible : Passed")}

\* C4: a reference whose head_object probe failed is never in
\* room_category_failed or empty_file_failed, is never counted in
\* files_checked, and no get_object is ever issued for it.
C4_ShortCircuit ==
    /\ files_checked = Len(checked)
    /\ \A n \in 1..Len(trace) :
          (trace[n].op = "head_object" /\ ~storage[<<trace[n].bucket, trace[n].key>>].head) =>
              /\ S3Path(trace[n].bucket, trace[n].key) \notin Range(room_category_failed)
              /\ S3Path(trace[n].bucket, trace[n].key) \notin Range(empty_file_failed)
              /\ S3Path(trace[n].bucket, trace[n].key) \notin Range(checked)
              /\ Call("get_object", trace[n].bucket, trace[n].key) \notin Range(trace)

C4_Witness ==
    /\ Reported
    /\ files_checked > 0
    /\ \E n \in 1..Len(trace) :
          trace[n].op = "head_object" /\ ~storage[<<trace[n].bucket, trace[n].key>>].head

AllProbesFail == \A i \in 1..Len(paths) : ~storage[paths[i]].head

AllFailedReport ==
    /\ Len(output) = Len(paths) + 3
    /\ output[1] = Line("file_accessible : Failed")
    /\ \A i \in 1..Len(paths) :
          output[i + 1] = AccessDetail(RefPath(paths[i]), ProbeReason)
    /\ SubSeq(output, Len(paths) + 2, Len(paths) + 3) = ForcedLines

\* C5 as stated: for any list of references, if every reference fails the
\* probe the report shows file_accessible Failed with one detail line for
\* every reference and both other buckets as Failed (no accessible files).
C5_Original == (Reported /\ AllProbesFail) => AllFailedReport

\* C5 amended: the same, for any non-empty list of references.
C5_AllInaccessible == (Reported /\ paths # <<>> /\ AllProbesFail) => AllFailedReport

C5_Witness == Reported /\ Len(paths) = 2 /\ AllProbesFail /\ run = 1

\* C6 as stated: when files_checked = 0 at the end of a run, the report is
\* exactly three lines: the file_accessible header and the two
\* Failed (no accessible files) lines.
C6_Original ==
    (Reported /\ files_checked = 0) =>
        /\ Len(output) = 3
        /\ output[1] \in HeaderLines
        /\ SubSeq(output, 2, 3) = ForcedLines

\* C6 amended: when files_checked = 0 at the end of a run, the report is the
\* file_accessible header, one detail line for each recorded accessibility
\* failure, and the two Failed (no accessible files) lines, and nothing else.
C6_NoneChecked ==
    (Reported /\ files_checked = 0) =>
        /\ Len(output) = Len(file_access_failed) + 3
        /\ output[1] = (IF file_access_failed = <<>> THEN Line("file_accessible : Passed")
                        ELSE Line("file_accessible : Failed"))
        /\ \A i \in 1..Len(file_access_failed) :
              output[i + 1] = AccessDetail(file_access_failed[i][1], file_access_failed[i][2])
        /\ SubSeq(output, Len(output) - 1, Len(output)) = ForcedLines

C6_Witness ==
    /\ Reported /\ files_checked = 0 /\ run = 1
    /\ Len(file_access_failed) = 2
    /\ file_access_failed[1][2] # file_access_failed[2][2]

\* C7: when the requested name matches no entry, check_service prints exactly
\* one not-found message, makes no storage call and no extraction, prints no
\* report line and returns normally.
C7_NotFound ==
    NoMatch =>
        /\ trace = <<>>
        /\ pc \in {"start", "done"}
        /\ pc = "start" => output = <<>>
        /\ pc = "done" => output = <<NotFoundLine>>

C7_Witness == NoMatch /\ pc = "done" /\ output = <<NotFoundLine>>

\* C8: two runs of check_service on the same collection, entry name and
\* storage state print identical reports, line for line.
C8_Deterministic == (run >= 2 /\ pc \in {"done", "raised"}) => output = prev_output

C8_Witness ==
    /\ run = 2 /\ Reported
    /\ file_access_failed # <<>> /\ room_category_failed # <<>> /\ files_checked = 1

ProbedSoFar == IF pc = "read" THEN idx ELSE idx - 1

LoopMeasure == 2 * (Len(paths) + 1 - idx) + (IF pc = "loop" THEN 1 ELSE 0)

LoopStepAdvances ==
    pc \in {"loop", "read"} =>
        /\ pc' \in {"loop", "read", "done"}
        /\ LoopMeasure' < LoopMeasure
        /\ LoopMeasure' >= 0

\* C9: for every combination of probe, fetch and decode outcomes each
\* extracted reference is probed exactly once, in list order, with no retry,
\* and the run ends by printing the report: inside the loop a step is always
\* possible, every step stays in the loop or prints the report, and every
\* step brings the end of the list nearer, whatever the outcome on the
\* current reference.
C9_NoAbort ==
    /\ []((pc \in {"loop", "read"} \/ Reported) =>
            /\ HeadRefs = SubSeq(paths, 1, ProbedSoFar)
            /\ (Reported => /\ HeadRefs = paths
                            /\ output # <<>>
                            /\ output[1] \in HeaderLines))
    /\ [](pc \in {"loop", "read"} => ENABLED (Probe \/ Read \/ Report))
    /\ [][LoopStepAdvances]_vars

C9_Witness ==
    /\ Reported /\ Len(paths) = 2 /\ HeadRefs = paths
    /\ ~storage[paths[1]].head
    /\ storage[paths[2]].head /\ ~storage[paths[2]].get

ReadFails(r) ==
    /\ storage[r].head
    /\ \/ endswith(r[2], {".parquet"}) /\ (~storage[r].get \/ storage[r].content.format # "parquet")
       \/ endswith(r[2], {".json"}) /\ (~storage[r].get \/ storage[r].content.format # "json")

RaisedMessage(r) ==
    IF ~storage[r].get THEN StrOfError("get_object")
    ELSE IF endswith(r[2], {".parquet"}) THEN StrOfError("read_parquet")
    ELSE StrOfError("json.loads")

\* C10: a reference that passes the probe but whose fetch or decode fails
\* (key ending in .parquet or .json) is recorded in file_access_failed with
\* the raised error's message as reason, not the fixed probe text, is not
\* counted in files_checked and is in neither room_category_failed nor
\* empty_file_failed; the checked references and the accessibility failures
\* are disjoint.
C10_ContentFailure ==
    /\ files_checked = Cardinality({i \in 1..(idx - 1) :
                                      /\ storage[paths[i]].head
                                      /\ ~ReadFails(paths[i])
                                      /\ endswith(paths[i][2], {".parquet", ".json"})})
    /\ Range(checked) \cap FailedPaths = {}
    /\ \A i \in 1..(idx - 1) :
          ReadFails(paths[i]) =>
              /\ <<RefPath(paths[i]), RaisedMessage(paths[i])>> \in Range(file_access_failed)
              /\ <<RefPath(paths[i]), ProbeReason>> \notin Range(file_access_failed)
              /\ RaisedMessage(paths[i]) # ProbeReason
              /\ RefPath(paths[i]) \notin Range(checked)
              /\ RefPath(paths[i]) \notin Range(room_category_failed)
              /\ RefPath(paths[i]) \notin Range(empty_file_failed)

C10_Witness ==
    /\ Reported /\ files_checked = 1
    /\ \E i \in 1..Len(paths) :
          /\ ReadFails(paths[i]) /\ storage[paths[i]].get
          /\ <<RefPath(paths[i]), RaisedMessage(paths[i])>> \in Range(file_access_failed)

====
